---- MODULE Spec2Model ----
(***************************************************************************)
(* Model of the AgentBill Go SDK (agentbill.go): the span tracer, the OTLP *)
(* encoder and the Flush exporter, together with the two request wrappers  *)
(* (ChatCompletion, TrackSignal) that sit on top of them.                  *)
(*                                                                         *)
(* Go values are represented as follows.                                   *)
(*   *Span                   an index into objs (the heap of Span structs) *)
(*   map[string]interface{}  an index into maps (the heap of attribute     *)
(*                           maps); 0 is the nil map                       *)
(*   interface{} value       [type |-> its dynamic type, val |-> the value]*)
(*   error                   a string, Nil for the nil error               *)
(*   time.Now().UnixNano()   the variable clock, advanced by Tick          *)
(*   uuid.New().String()     a 36-character string drawn from UUIDs        *)
(***************************************************************************)
EXTENDS Integers, Sequences, FiniteSets, TLC

(* ---------------------------- bounds ----------------------------------- *)
\* number of Span structs ever allocated (StartSpan + ChatCompletion calls)
MaxSpans == 2
\* first and last reading of the wall clock
ClockStart == 9
MaxClock == 11

(* ------------------------ program constants ---------------------------- *)
Nil == "nil"
ServiceName == "agentbill-go-sdk"
ServiceVersion == "1.0.0"
DefaultBaseURL == "https://uenhjwdtnxtchlmqarjo.supabase.co"
StatusOK == 200
SpanIDLen == 16
SpanKind == 1
ChatSpanName == "openai.chat.completion"

(* --------------------------- input sets -------------------------------- *)
\* Config.CustomerID and Config.BaseURL as the caller may set them
CustomerIDs == {"", "customer-123"}
MalformedBaseURL == "http://bad host"
BaseURLs == {"", MalformedBaseURL}
\* results of uuid.New().String(): the first two agree on their first 16
\* characters and differ afterwards
UUIDs == { "1b4e28ba-2fa1-41d2-883f-0016d3cca427",
           "1b4e28ba-2fa1-41d2-b6c1-9a2f0e7d5c33",
           "7c9e6679-7425-40de-944b-e07fc1f90ae7" }
SpanNames == {"op"}
Contexts == {"background", "cancelled", "nil"}
StatusCodes == {200, 204, 500}
\* what client.Do returns: a transport error, or a response with a status
NetOutcomes == {[err |-> "connection refused", StatusCode |-> 0]}
               \cup {[err |-> Nil, StatusCode |-> s] : s \in StatusCodes}

\* Go values by dynamic type; a float64 is held in tenths (15 is 1.5)
Str(s) == [type |-> "string", val |-> s]
IntV(n) == [type |-> "int", val |-> n]
Int64V(n) == [type |-> "int64", val |-> n]
BoolV(b) == [type |-> "bool", val |-> b]
Float64V(tenths) == [type |-> "float64", val |-> tenths]
Int32V(n) == [type |-> "int32", val |-> n]
NilV == [type |-> "nil", val |-> 0]

EmptyMap == [k \in {} |-> Str("")]
\* map literals a caller passes to StartSpan
InitialAttrs == { EmptyMap,
                  [k \in {"customer.id"} |-> Str("customer-999")] }
AttrKeys == {"latency_ms"}
AttrValues == {IntV(42), Float64V(15)}
\* a value of every type the encoder tells apart, and of three it does not
AllValues == { Str("gpt-4o-mini"), IntV(42), Int64V(0 - 7), BoolV(TRUE),
               Float64V(15), Float64V(420), Int32V(7), NilV }
StatusArgs == {[code |-> 1, message |-> "boom"]}
\* ChatCompletion inputs: the model name, whether OPENAI_API_KEY is set, and
\* the body of the provider's answer (whether it decodes as JSON, and the
\* numeric fields of its "usage" object)
Models == {"gpt-4o-mini"}
NoUsage == [k \in {} |-> 0]
ProviderBodies == { [json |-> FALSE, usage |-> NoUsage],
                    [json |-> TRUE, usage |-> NoUsage],
                    [json |-> TRUE, usage |-> [k \in {"total_tokens"} |-> 42]] }
\* a 200 answer whose body is the JSON value null
NullBody == [json |-> TRUE, usage |-> NoUsage, null |-> TRUE]
\* TrackSignal inputs: Revenue in tenths, or NaN, which json.Marshal rejects
Signals == { [EventName |-> "purchase", Revenue |-> [nan |-> FALSE, tenths |-> 995]],
             [EventName |-> "purchase", Revenue |-> [nan |-> TRUE, tenths |-> 0]] }
NanosPerMilli == 1000000
Idle == [pending |-> FALSE]

VARIABLES
    config,   \* Tracer.config / Client.config
    objs,     \* heap of Span structs; a *Span is an index
    maps,     \* heap of attribute maps; Span.Attributes is an index
    spans,    \* Tracer.spans: the buffer, a sequence of *Span
    clock,    \* the wall clock read by time.Now()
    ret,      \* the most recent call: its name (op) and what it returned
    net,      \* the outbound requests the most recent call handed to client.Do
    alive,    \* FALSE once a call has panicked
    flight,   \* the Flush whose request is with client.Do, Idle when none is
    exported  \* history, per *Span: "acked" once it was in the document of a
              \* request answered with 200, "none" before

vars == <<config, objs, maps, spans, clock, ret, net, alive, flight, exported>>

(* ------------------------- pure helpers -------------------------------- *)
Digit(d) ==
    CASE d = 0 -> "0" [] d = 1 -> "1" [] d = 2 -> "2" [] d = 3 -> "3"
      [] d = 4 -> "4" [] d = 5 -> "5" [] d = 6 -> "6" [] d = 7 -> "7"
      [] d = 8 -> "8" [] d = 9 -> "9"

RECURSIVE FormatNat(_)
FormatNat(n) ==
    IF n < 10 THEN Digit(n) ELSE FormatNat(n \div 10) \o Digit(n % 10)

\* fmt.Sprintf("%d", n)
FormatInt(n) ==
    IF n < 0 THEN "-" \o FormatNat(0 - n) ELSE FormatNat(n)

DigitVal(c) ==
    CASE c = "0" -> 0 [] c = "1" -> 1 [] c = "2" -> 2 [] c = "3" -> 3
      [] c = "4" -> 4 [] c = "5" -> 5 [] c = "6" -> 6 [] c = "7" -> 7
      [] c = "8" -> 8 [] c = "9" -> 9

RECURSIVE ParseNat(_)
ParseNat(s) ==
    IF Len(s) = 0 THEN 0
    ELSE 10 * ParseNat(SubSeq(s, 1, Len(s) - 1))
         + DigitVal(SubSeq(s, Len(s), Len(s)))

\* the integer a decimal string denotes (the reader's side of FormatInt)
ParseInt(s) ==
    IF Len(s) > 0 /\ SubSeq(s, 1, 1) = "-"
    THEN 0 - ParseNat(SubSeq(s, 2, Len(s)))
    ELSE ParseNat(s)

\* m[k] = v on a Go map
MapSet(m, k, v) ==
    [x \in (DOMAIN m) \cup {k} |-> IF x = k THEN v ELSE m[x]]

\* nondecreasing sequences of n clock readings, none before `from`
RECURSIVE Readings(_, _)
Readings(n, from) ==
    IF n = 0 THEN {<<>>}
    ELSE UNION { { <<t>> \o r : r \in Readings(n - 1, t) } : t \in from..MaxClock }

\* the clock once the readings in times have been taken
ClockAfter(times) == IF Len(times) = 0 THEN clock ELSE times[Len(times)]

(* --------------------------- construction ------------------------------ *)
\* Init: an empty BaseURL is replaced by the hosted default
InitConfig(cid, base) ==
    [CustomerID |-> cid,
     BaseURL |-> IF base = "" THEN DefaultBaseURL ELSE base]

\* NewTracer: the buffer starts as an empty slice
NewTracer == <<>>

\* the clock moves forward between and during calls
Tick ==
    /\ alive
    /\ clock < MaxClock
    /\ clock' = clock + 1
    /\ UNCHANGED <<flight, exported, config, objs, maps, spans, ret, net, alive>>

(* ----------------------------- Tracer ---------------------------------- *)
\* uuid.New().String()[:16]
SpanIDOf(u) == SubSeq(u, 1, SpanIDLen)

\* StartSpan, the two identity attributes written into the caller's map
InjectIdentity(m) ==
    LET m1 == MapSet(m, "service.name", Str(ServiceName))
    IN  IF config.CustomerID # ""
        THEN MapSet(m1, "customer.id", Str(config.CustomerID))
        ELSE m1

\* StartSpan, the Span literal; EndTime is left at its zero value
NewSpan(name, tu, su, attributes, now) ==
    [Name |-> name,
     TraceID |-> tu,
     SpanID |-> SpanIDOf(su),
     Attributes |-> attributes,
     StartTime |-> now,
     EndTime |-> 0,
     Status |-> [code |-> 0]]

\* (mutant: StartSpan writes the identity into a copy of the caller's map and
\* stores the copy)
StoredAttributes_copy(heap, attributes) ==
    [heap |-> Append(heap, InjectIdentity(heap[attributes])),
     ref |-> Len(heap) + 1]

\* StartSpan, the map heap once the identity has been written into the
\* caller's map, and the map the Span literal stores: the caller's map itself
StoredAttributes(heap, attributes) ==
    [heap |-> [heap EXCEPT ![attributes] = InjectIdentity(@)],
     ref |-> attributes]

\* StartSpan(name, attributes): attributes is the caller's map, 0 for a nil
\* map, an index of maps for a map the caller already holds, Len(maps) + 1
\* for a new map literal with content lit; tu and su are the two uuid.New()
\* results.  Writing to a nil map panics before anything is appended.
StartSpan(name, attributes, lit, tu, su) ==
    /\ alive
    /\ attributes \in 0..(Len(maps) + 1)
    /\ IF attributes = 0
       THEN /\ alive' = FALSE
            /\ ret' = [op |-> "StartSpan", panic |-> "assignment to entry in nil map"]
            /\ net' = <<>>
            /\ UNCHANGED <<flight, exported, config, objs, maps, spans, clock>>
       ELSE /\ Len(objs) < MaxSpans
            /\ LET heap == IF attributes = Len(maps) + 1 THEN Append(maps, lit) ELSE maps
                   st == StoredAttributes(heap, attributes)
               IN  /\ maps' = st.heap
                   /\ objs' = Append(objs, NewSpan(name, tu, su, st.ref, clock))
            /\ spans' = Append(spans, Len(objs) + 1)
            /\ exported' = Append(exported, "none")
            /\ ret' = [op |-> "StartSpan", span |-> Len(objs) + 1]
            /\ net' = <<>>
            /\ UNCHANGED <<flight, config, clock, alive>>

\* Span.SetAttribute
SetAttribute(s, key, value) ==
    /\ alive
    /\ s \in 1..Len(objs)
    /\ maps' = [maps EXCEPT ![objs[s].Attributes] = MapSet(@, key, value)]
    /\ ret' = [op |-> "SetAttribute"]
    /\ net' = <<>>
    /\ UNCHANGED <<flight, exported, config, objs, spans, clock, alive>>

\* (mutant: SetStatus stores a new struct that keeps the times and the
\* attributes but not the name and the ids)
WithStatus_anonymous(span, code, message) ==
    [span EXCEPT !.Status = [code |-> code, message |-> message],
                 !.Name = "", !.TraceID = "", !.SpanID = ""]

\* Span.SetStatus, the struct after the call: only Status is assigned
WithStatus(span, code, message) ==
    [span EXCEPT !.Status = [code |-> code, message |-> message]]

\* Span.SetStatus
SetStatus(s, code, message) ==
    /\ alive
    /\ s \in 1..Len(objs)
    /\ objs' = [objs EXCEPT ![s] = WithStatus(@, code, message)]
    /\ ret' = [op |-> "SetStatus"]
    /\ net' = <<>>
    /\ UNCHANGED <<flight, exported, config, maps, spans, clock, alive>>

\* Span.End, the value stored in EndTime
EndTimeAfterEnd(old, now) == now

\* Span.End
End(s) ==
    /\ alive
    /\ s \in 1..Len(objs)
    /\ objs' = [objs EXCEPT ![s].EndTime = EndTimeAfterEnd(@, clock)]
    /\ ret' = [op |-> "End"]
    /\ net' = <<>>
    /\ UNCHANGED <<flight, exported, config, maps, spans, clock, alive>>

(* ---------------------------- OTLP encoder ----------------------------- *)
\* fmt.Sprintf("%v", v)
FormatTenths(n) ==
    IF n < 0 THEN "-" \o FormatNat((0 - n) \div 10)
                      \o (IF (0 - n) % 10 = 0 THEN "" ELSE "." \o FormatNat((0 - n) % 10))
    ELSE FormatNat(n \div 10)
             \o (IF n % 10 = 0 THEN "" ELSE "." \o FormatNat(n % 10))

Sprintv(v) ==
    CASE v.type = "string" -> v.val
      [] v.type \in {"int", "int64", "int32"} -> FormatInt(v.val)
      [] v.type = "bool" -> (IF v.val THEN "true" ELSE "false")
      [] v.type = "float64" -> FormatTenths(v.val)
      [] v.type = "nil" -> "<nil>"

\* (mutant: every value is written as the string it prints as)
valueToOTLP_untyped(value) == [stringValue |-> Sprintv(value)]

\* Tracer.valueToOTLP
valueToOTLP(value) ==
    CASE value.type = "string" -> [stringValue |-> value.val]
      [] value.type \in {"int", "int64"} -> [intValue |-> value.val]
      [] value.type = "bool" -> [boolValue |-> value.val]
      [] OTHER -> [stringValue |-> Sprintv(value)]

\* (mutant: an unset end time is written as it is)
EncodedEndTime_raw(endTime, now) == endTime

\* spanToOTLP, the end time written to the document
EncodedEndTime(endTime, now) == IF endTime = 0 THEN now ELSE endTime

\* Tracer.spanToOTLP; now is the reading time.Now() gives during the call.
\* Go ranges over the attribute map in an unspecified order, so the
\* attribute list is held as the set of its entries.
spanToOTLP(span, now) ==
    [traceId |-> span.TraceID,
     spanId |-> span.SpanID,
     name |-> span.Name,
     kind |-> SpanKind,
     startTimeUnixNano |-> FormatInt(span.StartTime),
     endTimeUnixNano |-> FormatInt(EncodedEndTime(span.EndTime, now)),
     attributes |-> { [key |-> k, value |-> valueToOTLP(maps[span.Attributes][k])]
                      : k \in DOMAIN maps[span.Attributes] },
     status |-> span.Status]

\* (mutant: the last buffered span is left out of the document)
EncodeSpans_partial(buf, times) ==
    [i \in 1..(Len(buf) - 1) |-> spanToOTLP(objs[buf[i]], times[i])]

\* (mutant: the document lists the spans last-started first)
EncodeSpans_reversed(buf, times) ==
    [i \in 1..Len(buf) |-> spanToOTLP(objs[buf[Len(buf) + 1 - i]], times[i])]

\* buildOTLPPayload, the "spans" slice: one entry per buffered span
EncodeSpans(buf, times) ==
    [i \in 1..Len(buf) |-> spanToOTLP(objs[buf[i]], times[i])]

\* Tracer.buildOTLPPayload over the buffer buf
buildOTLPPayload(buf, times) ==
    [resource |-> { [key |-> "service.name", value |-> [stringValue |-> ServiceName]],
                    [key |-> "service.version", value |-> [stringValue |-> ServiceVersion]] },
     scope |-> [name |-> "agentbill", version |-> ServiceVersion],
     spans |-> EncodeSpans(buf, times)]

\* json.Marshal(payload): the document holds only strings, integers,
\* booleans, maps and slices
MarshalError(payload) ==
    IF \A i \in 1..Len(payload.spans) : \A e \in payload.spans[i].attributes :
            DOMAIN e.value \subseteq {"stringValue", "intValue", "boolValue"}
    THEN Nil
    ELSE "json: unsupported type"

(* --------------------------- Exporter (Flush) -------------------------- *)
\* url.Parse inside http.NewRequestWithContext rejects a space in the host
URLParseError(url) ==
    IF \E i \in 1..Len(url) : SubSeq(url, i, i) = " "
    THEN "invalid character in host name"
    ELSE Nil

\* http.NewRequestWithContext(ctx, "POST", url, body)
NewRequestError(ctx, url) ==
    IF ctx = "nil" THEN "net/http: nil Context" ELSE URLParseError(url)

\* client.Do(req): a cancelled context fails the call before any answer
DoError(ctx, rsp) ==
    IF ctx = "cancelled" THEN "context canceled" ELSE rsp.err

\* (mutant: the empty-buffer test is missing)
FlushIsNoop_missing(buf) == FALSE

\* Flush, the early return on an empty buffer
FlushIsNoop(buf) == Len(buf) = 0

\* (mutant: the buffer is never replaced)
BufferAfterResponse_keep(buf, statusCode) == buf

\* (mutant: a refused batch loses its oldest span)
BufferAfterResponse_dropfirst(buf, statusCode) ==
    IF statusCode = StatusOK THEN <<>> ELSE Tail(buf)

\* (mutant: an accepted batch leaves its newest span in the buffer)
BufferAfterResponse_keeplast(buf, statusCode) ==
    IF statusCode = StatusOK THEN <<buf[Len(buf)]>> ELSE buf

\* (mutant: the buffer is replaced after any response)
BufferAfterResponse_always(buf, statusCode) == <<>>

\* Flush, the buffer once a response with this status has arrived
BufferAfterResponse(buf, statusCode) ==
    IF statusCode = StatusOK THEN <<>> ELSE buf

\* (mutant: a status other than 200 is returned as an error)
ErrorAfterResponse_strict(statusCode) ==
    IF statusCode = StatusOK THEN Nil ELSE "unexpected status"

\* Flush, the error returned once a response with this status has arrived
ErrorAfterResponse(statusCode) == Nil

ExportURL(base) == base \o "/functions/v1/otel-collector"

\* The export history once the request with the document listing the spans
\* of buf has been answered with statusCode (0: no answer)
Recorded(hist, buf, statusCode) ==
    [h \in DOMAIN hist |->
        IF \E i \in DOMAIN buf : buf[i] = h
        THEN IF statusCode = StatusOK THEN "acked" ELSE hist[h]
        ELSE hist[h]]

\* Tracer.Flush(ctx); rsp is what client.Do gives back, times the clock
\* readings taken while the buffered spans are encoded
Flush(ctx, rsp, times) ==
    /\ alive
    /\ IF FlushIsNoop(spans)
       THEN /\ ret' = [op |-> "Flush", err |-> Nil]
            /\ net' = <<>>
            /\ UNCHANGED <<flight, exported, config, objs, maps, spans, clock, alive>>
       ELSE /\ times \in Readings(Len(spans), clock)
            /\ LET payload == buildOTLPPayload(spans, times)
                   url == ExportURL(config.BaseURL)
                   req == [url |-> url, body |-> payload]
               IN  IF MarshalError(payload) # Nil
                   THEN /\ ret' = [op |-> "Flush", err |-> MarshalError(payload)]
                        /\ net' = <<>>
                        /\ spans' = spans
                        /\ exported' = exported
                   ELSE IF NewRequestError(ctx, url) # Nil
                   THEN /\ ret' = [op |-> "Flush", err |-> NewRequestError(ctx, url)]
                        /\ net' = <<>>
                        /\ spans' = spans
                        /\ exported' = exported
                   ELSE IF DoError(ctx, rsp) # Nil
                   THEN /\ ret' = [op |-> "Flush", err |-> DoError(ctx, rsp)]
                        /\ net' = <<[req |-> req, err |-> DoError(ctx, rsp), StatusCode |-> 0]>>
                        /\ spans' = spans
                        /\ exported' = Recorded(exported, spans, 0)
                   ELSE /\ ret' = [op |-> "Flush", err |-> ErrorAfterResponse(rsp.StatusCode)]
                        /\ net' = <<[req |-> req, err |-> Nil, StatusCode |-> rsp.StatusCode]>>
                        /\ spans' = BufferAfterResponse(spans, rsp.StatusCode)
                        /\ exported' = Recorded(exported, spans, rsp.StatusCode)
            /\ clock' = ClockAfter(times)
            /\ UNCHANGED <<flight, config, objs, maps, alive>>

\* Tracer.Flush when other goroutines use the tracer meanwhile.  Nothing
\* guards t.spans, so a StartSpan can run between the two halves of a Flush:
\* FlushSend is Flush up to the point where the request is with client.Do,
\* FlushReturn is the rest, from the answer on.  flight holds what the Flush
\* in progress keeps in its locals: the context, the request, and (for the
\* history) the spans its document was built from.
FlushSend(ctx, times) ==
    /\ alive
    /\ ~flight.pending
    /\ IF FlushIsNoop(spans)
       THEN /\ ret' = [op |-> "Flush", err |-> Nil]
            /\ net' = <<>>
            /\ UNCHANGED <<flight, clock>>
       ELSE /\ times \in Readings(Len(spans), clock)
            /\ LET payload == buildOTLPPayload(spans, times)
                   url == ExportURL(config.BaseURL)
                   req == [url |-> url, body |-> payload]
               IN  IF MarshalError(payload) # Nil
                   THEN /\ ret' = [op |-> "Flush", err |-> MarshalError(payload)]
                        /\ net' = <<>>
                        /\ flight' = flight
                   ELSE IF NewRequestError(ctx, url) # Nil
                   THEN /\ ret' = [op |-> "Flush", err |-> NewRequestError(ctx, url)]
                        /\ net' = <<>>
                        /\ flight' = flight
                   ELSE /\ flight' = [pending |-> TRUE, ctx |-> ctx,
                                      req |-> req, buf |-> spans]
                        /\ UNCHANGED <<ret, net>>
            /\ clock' = ClockAfter(times)
    /\ UNCHANGED <<exported, config, objs, maps, spans, alive>>

\* (mutant: only the spans of the document are taken out of the buffer)
BufferAfterFlight_suffix(buf, sent, statusCode) ==
    IF statusCode = StatusOK THEN SubSeq(buf, Len(sent) + 1, Len(buf)) ELSE buf

\* Flush, the buffer buf once the request built from the spans sent has been
\* answered: t.spans is assigned a new empty slice, whatever it holds by then
BufferAfterFlight(buf, sent, statusCode) == BufferAfterResponse(buf, statusCode)

FlushReturn(rsp) ==
    /\ alive
    /\ flight.pending
    /\ IF DoError(flight.ctx, rsp) # Nil
       THEN /\ ret' = [op |-> "Flush", err |-> DoError(flight.ctx, rsp)]
            /\ net' = <<[req |-> flight.req, err |-> DoError(flight.ctx, rsp),
                         StatusCode |-> 0]>>
            /\ UNCHANGED <<spans, exported>>
       ELSE /\ ret' = [op |-> "Flush", err |-> ErrorAfterResponse(rsp.StatusCode)]
            /\ net' = <<[req |-> flight.req, err |-> Nil,
                         StatusCode |-> rsp.StatusCode]>>
            /\ spans' = BufferAfterFlight(spans, flight.buf, rsp.StatusCode)
            /\ exported' = Recorded(exported, flight.buf, rsp.StatusCode)
    /\ flight' = Idle
    /\ UNCHANGED <<config, objs, maps, clock, alive>>

(* --------------------------- request wrappers -------------------------- *)
ProviderURL == "https://api.openai.com/v1/chat/completions"

\* ChatCompletion, the error of the first failing step, Nil if none fails
\* (json.Marshal of a model name and string messages cannot fail)
ChatError(ctx, apiKey, rsp, body) ==
    IF apiKey = "" THEN "OPENAI_API_KEY environment variable not set"
    ELSE IF NewRequestError(ctx, ProviderURL) # Nil THEN NewRequestError(ctx, ProviderURL)
    ELSE IF DoError(ctx, rsp) # Nil THEN DoError(ctx, rsp)
    ELSE IF rsp.StatusCode # StatusOK
         THEN "OpenAI API returned status: " \o FormatInt(rsp.StatusCode)
    ELSE IF ~body.json THEN "invalid character '<' looking for beginning of value"
    ELSE Nil

\* ChatCompletion, the token counts copied from the response's usage object
UsageAttr(m, usage, field) ==
    IF field \in DOMAIN usage
    THEN MapSet(m, "response." \o field, IntV(usage[field]))
    ELSE m

UsageAttrs(m, usage) ==
    UsageAttr(UsageAttr(UsageAttr(m, usage, "prompt_tokens"),
                        usage, "completion_tokens"),
              usage, "total_tokens")

\* ChatCompletion, the status the span is given: SetStatus(1, err.Error()) on
\* the error paths, SetStatus(0, "") on success
ChatStatus_ok(err) == [code |-> 0, message |-> ""]

ChatStatus(err) ==
    IF err = Nil THEN [code |-> 0, message |-> ""]
                 ELSE [code |-> 1, message |-> err]

\* json.Decoder.Decode into a map[string]interface{}: null leaves the map nil
NilMap == [nil |-> TRUE]

Decode(body) == IF body = NullBody THEN NilMap ELSE body

\* ChatCompletion, the (response, error) pair returned when the call is made
\* with buffer buf, after a call that left the trace last: decided by the
\* provider call alone; the tracer calls return nothing that is looked at
ChatResult_coupled(ctx, apiKey, rsp, body, buf, last) ==
    IF Len(last) = 1 /\ last[1].StatusCode # StatusOK
    THEN [resp |-> NilMap, err |-> "telemetry unavailable"]
    ELSE [resp |-> IF ChatError(ctx, apiKey, rsp, body) = Nil
                   THEN Decode(body) ELSE NilMap,
          err |-> ChatError(ctx, apiKey, rsp, body)]

ChatResult(ctx, apiKey, rsp, body, buf, last) ==
    [resp |-> IF ChatError(ctx, apiKey, rsp, body) = Nil
              THEN Decode(body) ELSE NilMap,
     err |-> ChatError(ctx, apiKey, rsp, body)]

\* OpenAIWrapper.ChatCompletion: starts a span over a new map literal, runs
\* the provider call, sets the status, and on the way out (the deferred
\* function) sets latency_ms and ends the span at time tEnd
ChatCompletion(ctx, model, apiKey, rsp, body, tu, su, tEnd) ==
    /\ alive
    /\ Len(objs) < MaxSpans
    /\ tEnd \in clock..MaxClock
    /\ LET startTime == clock
           lit == [k \in {"model", "provider"} |->
                     IF k = "model" THEN Str(model) ELSE Str("openai")]
           started == NewSpan(ChatSpanName, tu, su, Len(maps) + 1, clock)
           res == ChatResult(ctx, apiKey, rsp, body, spans, net)
           err == res.err
           called == apiKey # "" /\ NewRequestError(ctx, ProviderURL) = Nil
           m1 == IF err = Nil THEN UsageAttrs(InjectIdentity(lit), body.usage)
                              ELSE InjectIdentity(lit)
           status == ChatStatus(err)
           latency == (tEnd - startTime) \div NanosPerMilli
       IN  /\ maps' = Append(maps, MapSet(m1, "latency_ms", Int64V(latency)))
           /\ objs' = Append(objs, [started EXCEPT
                                       !.Status = status,
                                       !.EndTime = EndTimeAfterEnd(@, tEnd)])
           /\ spans' = Append(spans, Len(objs) + 1)
           /\ ret' = [op |-> "ChatCompletion",
                      resp |-> res.resp,
                      err |-> err]
           /\ net' = IF called
                     THEN <<[req |-> [url |-> ProviderURL, body |-> [model |-> model]],
                             err |-> DoError(ctx, rsp),
                             StatusCode |-> IF DoError(ctx, rsp) = Nil
                                            THEN rsp.StatusCode ELSE 0]>>
                     ELSE <<>>
    /\ exported' = Append(exported, "none")
    /\ clock' = tEnd
    /\ UNCHANGED <<flight, config, alive>>

SignalURL(base) == base \o "/functions/v1/record-signals"

\* Client.TrackSignal: one POST; the status of the answer is not looked at
TrackSignal(ctx, signal, rsp) ==
    /\ alive
    /\ LET url == SignalURL(config.BaseURL)
           body == [event_name |-> signal.EventName,
                    revenue |-> signal.Revenue,
                    customer_id |-> config.CustomerID,
                    timestamp |-> clock]
       IN  IF signal.Revenue.nan
           THEN /\ ret' = [op |-> "TrackSignal", err |-> "json: unsupported value: NaN"]
                /\ net' = <<>>
           ELSE IF NewRequestError(ctx, url) # Nil
           THEN /\ ret' = [op |-> "TrackSignal", err |-> NewRequestError(ctx, url)]
                /\ net' = <<>>
           ELSE /\ ret' = [op |-> "TrackSignal", err |-> DoError(ctx, rsp)]
                /\ net' = <<[req |-> [url |-> url, body |-> body],
                             err |-> DoError(ctx, rsp),
                             StatusCode |-> IF DoError(ctx, rsp) = Nil
                                            THEN rsp.StatusCode ELSE 0]>>
    /\ UNCHANGED <<flight, exported, config, objs, maps, spans, clock, alive>>

(* --------------------------- specifications ---------------------------- *)
\* The calls, each over the inputs the caller and the environment supply.
\* A specification below fixes those input sets; the actions are the same.
AttributeArgs(nilOK, aliasOK) ==
    (IF nilOK THEN {0} ELSE {})
    \cup (IF aliasOK THEN 1..Len(maps) ELSE {})
    \cup {Len(maps) + 1}

StartSpanCall(nilOK, aliasOK, lits, tus, sus) ==
    \E name \in SpanNames, attributes \in AttributeArgs(nilOK, aliasOK),
       lit \in lits, tu \in tus, su \in sus :
        StartSpan(name, attributes, lit, tu, su)

SetAttributeCall(keys, values) ==
    \E s \in 1..Len(objs), key \in keys, value \in values :
        SetAttribute(s, key, value)

SetStatusCall ==
    \E s \in 1..Len(objs), st \in StatusArgs : SetStatus(s, st.code, st.message)

EndCall == \E s \in 1..Len(objs) : End(s)

FlushCall(ctxs, rsps, latest) ==
    \E ctx \in ctxs, rsp \in rsps, times \in Readings(Len(spans), clock) :
        /\ \A i \in 1..Len(times) : times[i] <= latest
        /\ Flush(ctx, rsp, times)

ChatCompletionCall(ctxs, keys, rsps, bodies, uuids, latest) ==
    \E ctx \in ctxs, model \in Models, apiKey \in keys,
       rsp \in rsps, body \in bodies,
       tu \in uuids, su \in uuids, tEnd \in clock..latest :
        ChatCompletion(ctx, model, apiKey, rsp, body, tu, su, tEnd)

TrackSignalCall(ctxs, signals, rsps) ==
    \E ctx \in ctxs, signal \in signals, rsp \in rsps :
        TrackSignal(ctx, signal, rsp)

InitWith(cids, bases) ==
    /\ \E cid \in cids, base \in bases : config = InitConfig(cid, base)
    /\ objs = <<>>
    /\ maps = <<>>
    /\ spans = NewTracer
    /\ clock = ClockStart
    /\ ret = [op |-> "Init"]
    /\ net = <<>>
    /\ alive = TRUE
    /\ flight = Idle
    /\ exported = <<>>

\* Spec: the buffer and the exporter.  Every operation is present; Flush
\* meets every context and every answer of the collector.
OneUUID == {"7c9e6679-7425-40de-944b-e07fc1f90ae7"}
OkAnswers == {[err |-> Nil, StatusCode |-> StatusOK]}

Init == InitWith({"customer-123"}, BaseURLs)

StartSpanA == StartSpanCall(FALSE, FALSE, {EmptyMap}, OneUUID, OneUUID)
SetAttributeA == SetAttributeCall(AttrKeys, {IntV(42)})
FlushA == FlushCall(Contexts, NetOutcomes, clock)
ChatCompletionA ==
    ChatCompletionCall({"background"}, {"", "sk-test"}, OkAnswers,
                       {[json |-> TRUE, usage |-> NoUsage]}, OneUUID, clock)
TrackSignalA == TrackSignalCall({"background"}, Signals, OkAnswers)

Next ==
    \/ StartSpanA
    \/ SetAttributeA
    \/ SetStatusCall
    \/ EndCall
    \/ FlushA
    \/ ChatCompletionA
    \/ TrackSignalA

Spec == Init /\ [][Next]_vars

\* SpecTime: the clock moves.  Spans are started and ended at different
\* times and exported with every choice of encoding times.
TwoUUIDs == {"1b4e28ba-2fa1-41d2-883f-0016d3cca427",
             "7c9e6679-7425-40de-944b-e07fc1f90ae7"}
TwoAnswers == {[err |-> Nil, StatusCode |-> StatusOK], [err |-> Nil, StatusCode |-> 500]}

InitT == InitWith({"customer-123"}, {""})

StartSpanT == StartSpanCall(FALSE, FALSE, {EmptyMap}, OneUUID, TwoUUIDs)
FlushT == FlushCall({"background", "nil"}, TwoAnswers, MaxClock)

NextT ==
    \/ Tick
    \/ StartSpanT
    \/ EndCall
    \/ FlushT

SpecTime == InitT /\ [][NextT]_vars

\* SpecSpan: span creation.  StartSpan meets every attribute argument (nil,
\* a new literal, a map passed before), every pair of generated UUIDs and
\* both settings of the customer id.
InitS == InitWith(CustomerIDs, {""})

StartSpanS == StartSpanCall(TRUE, TRUE, InitialAttrs, UUIDs, UUIDs)
FlushS == FlushCall({"background"}, OkAnswers, clock)

NextS ==
    \/ StartSpanS
    \/ FlushS

SpecSpan == InitS /\ [][NextS]_vars

\* SpecChat: the instrumented provider call.  ChatCompletion meets every
\* context, both settings of OPENAI_API_KEY, every answer of the provider and
\* every body, over every buffer StartSpan and Flush (accepted or refused by
\* the collector) can leave behind.
ChatBodies == ProviderBodies \cup {NullBody}
InitC == InitWith({"customer-123"}, {""})
StartSpanC == StartSpanCall(FALSE, FALSE, {EmptyMap}, OneUUID, OneUUID)
FlushC == FlushCall({"background"}, TwoAnswers, clock)
ChatCompletionC ==
    ChatCompletionCall(Contexts, {"", "sk-test"}, NetOutcomes,
                       ChatBodies, OneUUID, clock)

NextC ==
    \/ StartSpanC
    \/ FlushC
    \/ ChatCompletionC

SpecChat == InitC /\ [][NextC]_vars

\* SpecLife: the life of a span handle.  Spans with different ids are
\* started, changed through their handles and flushed, the collector
\* accepting or refusing; handles stay usable after their span was exported.
InitL == InitWith({"customer-123"}, {""})
StartSpanL == StartSpanCall(FALSE, FALSE, {EmptyMap}, OneUUID, TwoUUIDs)
SetAttributeL == SetAttributeCall(AttrKeys, {IntV(42)})
FlushL == FlushCall({"background", "nil"}, TwoAnswers, clock)

NextL ==
    \/ StartSpanL
    \/ SetAttributeL
    \/ SetStatusCall
    \/ EndCall
    \/ FlushL

SpecLife == InitL /\ [][NextL]_vars

\* SpecConc: the tracer used from two goroutines.  One calls Flush, the
\* other StartSpan; a StartSpan step is the whole call, taken before, between
\* or after the two halves of a Flush.
InitK == InitWith({"customer-123"}, {""})
StartSpanK == StartSpanCall(FALSE, FALSE, {EmptyMap}, OneUUID, TwoUUIDs)
FlushSendK ==
    \E ctx \in Contexts, times \in Readings(Len(spans), clock) :
        /\ \A i \in 1..Len(times) : times[i] <= clock
        /\ FlushSend(ctx, times)
FlushReturnK == \E rsp \in NetOutcomes : FlushReturn(rsp)

NextK ==
    \/ StartSpanK
    \/ FlushSendK
    \/ FlushReturnK

SpecConc == InitK /\ [][NextK]_vars

\* SpecAttr: attribute maps.  StartSpan is given a new map or one passed
\* before, SetAttribute writes two keys with two values, before and after
\* End, and Flush exports what the maps hold.
TwoKeys == {"latency_ms", "model"}
InitB == InitWith({"customer-123"}, {""})
StartSpanB == StartSpanCall(FALSE, TRUE, {EmptyMap}, OneUUID, OneUUID)
SetAttributeB == SetAttributeCall(TwoKeys, AttrValues)
FlushB == FlushCall({"background"}, OkAnswers, clock)

NextB ==
    \/ StartSpanB
    \/ SetAttributeB
    \/ EndCall
    \/ FlushB

SpecAttr == InitB /\ [][NextB]_vars

\* SpecEnc: the encoder.  SetAttribute writes a value of every type, and
\* Flush encodes what the buffered spans hold.
InitE == InitWith({"customer-123"}, {""})
StartSpanE == StartSpanCall(FALSE, FALSE, {EmptyMap}, OneUUID, OneUUID)
SetAttributeE == SetAttributeCall(AttrKeys, AllValues)
FlushE == FlushCall({"background"}, TwoAnswers, clock)

NextE ==
    \/ StartSpanE
    \/ SetAttributeE
    \/ FlushE

SpecEnc == InitE /\ [][NextE]_vars

(* ------------------------------ claims --------------------------------- *)
\* the step is a call of Flush: ret names the call that returned last, and
\* only Tick leaves ret as it was
AnyFlush == ret'.op = "Flush" /\ ~Tick

RetErr(r) == IF "err" \in DOMAIN r THEN r.err ELSE "no error result"

\* n is the trace of a call that sent one export request
Exported(n) ==
    /\ Len(n) = 1
    /\ n[1].req.url = ExportURL(config.BaseURL)

\* ... and the collector answered it with 200
Acked(n) ==
    /\ Exported(n)
    /\ n[1].err = Nil
    /\ n[1].StatusCode = StatusOK

\* ... and the collector answered it with some status
Answered(n) ==
    /\ Exported(n)
    /\ n[1].err = Nil

Doc(n) == n[1].req.body

\* C1: a Flush on an empty buffer returns nil, hands no request to the HTTP
\* client and leaves the buffer empty, every time it is called.
C1_FlushEmptyIsNoop ==
    [][(AnyFlush /\ Len(spans) = 0)
         => (RetErr(ret') = Nil /\ net' = <<>> /\ spans' = <<>>)]_vars

\* C1 witness: Flush has returned nil on a tracer that never held a span
C1_Witness ==
    /\ Len(objs) = 0
    /\ ret = [op |-> "Flush", err |-> Nil]
    /\ net = <<>>

\* C2: a Flush whose export request is answered with 200 leaves the buffer
\* empty; the buffer then stays empty until a span is started, and a Flush
\* that follows (directly, or after calls that start no span) is a no-op
\* that sends nothing.
C2_SuccessClears ==
    [][/\ (AnyFlush /\ Acked(net')) => spans' = <<>>
       /\ (Len(spans) = 0 /\ Len(objs') = Len(objs)) => spans' = <<>>
       /\ (AnyFlush /\ (Acked(net) \/ Len(spans) = 0))
            => (net' = <<>> /\ RetErr(ret') = Nil /\ spans' = <<>>)]_vars

\* C2 witness: spans were started, an acknowledged Flush emptied the buffer,
\* and a later Flush returned nil without sending
C2_Witness ==
    /\ Len(objs) > 0
    /\ spans = <<>>
    /\ ret = [op |-> "Flush", err |-> Nil]
    /\ net = <<>>

\* the Flush just taken did not get a 200: it returned an error, or the
\* collector answered with another status
FlushFailed ==
    \/ RetErr(ret') # Nil
    \/ (Answered(net') /\ net'[1].StatusCode # StatusOK)

\* C3: a Flush that fails (request construction, transport, cancellation,
\* a status other than 200) leaves the buffer holding the same spans in the
\* same order, each span unchanged.
C3_FailureRetains ==
    [][(AnyFlush /\ FlushFailed)
         => (spans' = spans /\ objs' = objs /\ maps' = maps)]_vars

\* C3 witness: two spans are still buffered after the collector answered 500
C3_Witness ==
    /\ Len(spans) = 2
    /\ Answered(net)
    /\ net[1].StatusCode = 500

\* C4: Flush returns an error exactly when request construction fails (no
\* request is handed over although the buffer is not empty) or the transport
\* fails; once a response has arrived it returns nil whatever the status,
\* and a status outside 2xx leaves the buffer as it was.
C4_ErrorIffNoResponse ==
    [][AnyFlush =>
         /\ (RetErr(ret') # Nil)
              <=> (Len(spans) > 0 /\ (net' = <<>> \/ net'[1].err # Nil))
         /\ Answered(net') => RetErr(ret') = Nil
         /\ (Answered(net') /\ net'[1].StatusCode \notin 200..299)
              => spans' = spans]_vars

\* C4 witness: the collector answered 500, Flush returned nil and the spans
\* are still buffered
C4_Witness ==
    /\ Len(spans) > 0
    /\ Answered(net)
    /\ net[1].StatusCode = 500
    /\ ret = [op |-> "Flush", err |-> Nil]

Handles(buf) == {buf[i] : i \in 1..Len(buf)}

\* the document of trace n holds the encoding of span h
InDoc(h, n) ==
    \E i \in 1..Len(Doc(n).spans) : \E t \in clock..clock' :
        Doc(n).spans[i] = spanToOTLP(objs[h], t)

\* C5: a span leaves the buffer only in a Flush whose export request was
\* answered with 200 and whose document held that span; in every other step
\* the buffer keeps its spans, in place, and can only grow at the end.
C5_OnlyAckedFlushRemoves ==
    [][/\ \A h \in Handles(spans) \ Handles(spans') :
            AnyFlush /\ Acked(net') /\ InDoc(h, net')
       /\ ~(AnyFlush /\ Acked(net'))
            => (Len(spans') >= Len(spans) /\ SubSeq(spans', 1, Len(spans)) = spans)]_vars

\* C5 witness: a document of two spans was acknowledged and both have left
C5_Witness ==
    /\ Acked(net)
    /\ Len(Doc(net).spans) = 2
    /\ spans = <<>>

\* the document of trace n lists the buffer buf: one encoded span per
\* buffered span, at the same position, in nondecreasing order of start time
DocListsBuffer(n, buf) ==
    /\ Len(Doc(n).spans) = Len(buf)
    /\ \A i \in 1..Len(buf) : \E t \in clock..clock' :
            Doc(n).spans[i] = spanToOTLP(objs[buf[i]], t)
    /\ \A i \in 1..Len(buf) : \A j \in i..Len(buf) :
            ParseInt(Doc(n).spans[i].startTimeUnixNano)
                <= ParseInt(Doc(n).spans[j].startTimeUnixNano)

\* C7 as stated: a Flush on a non-empty buffer hands exactly one request to
\* the HTTP client, and its document lists the buffer in start order.
C7_ExactlyOneRequest ==
    [][(AnyFlush /\ Len(spans) > 0)
         => (Exported(net') /\ DocListsBuffer(net', spans))]_vars

\* C7 as amended: a Flush on a non-empty buffer hands at most one request to
\* the HTTP client: none when the request cannot be constructed, in which
\* case Flush returns that error and keeps the buffer, and otherwise exactly
\* one, whose document lists the whole buffer in start order.
C7_AtMostOneRequest ==
    [][(AnyFlush /\ Len(spans) > 0)
         => /\ Len(net') <= 1
            /\ net' = <<>> => (RetErr(ret') # Nil /\ spans' = spans)
            /\ net' # <<>> => (Exported(net') /\ DocListsBuffer(net', spans))]_vars

\* C7 witness: one request carried two spans with different ids, started at
\* different times, and both are still buffered
C7_Witness ==
    /\ Exported(net)
    /\ Len(spans) = 2
    /\ Len(Doc(net).spans) = 2
    /\ Doc(net).spans[1].spanId # Doc(net).spans[2].spanId
    /\ Doc(net).spans[1].startTimeUnixNano # Doc(net).spans[2].startTimeUnixNano

\* C8: in every export document every encoded span has an end time other
\* than zero and a start time not after it, both read as decimal integers.
C8_EndTimeSetAndOrdered ==
    Exported(net) =>
        \A i \in 1..Len(Doc(net).spans) :
            /\ ParseInt(Doc(net).spans[i].endTimeUnixNano) # 0
            /\ ParseInt(Doc(net).spans[i].startTimeUnixNano)
                 <= ParseInt(Doc(net).spans[i].endTimeUnixNano)

\* C8 witness: a span that was never ended went out with an end time later
\* than its start
C8_Witness ==
    /\ Exported(net)
    /\ Len(spans) >= 1
    /\ objs[spans[1]].EndTime = 0
    /\ ParseInt(Doc(net).spans[1].endTimeUnixNano) > objs[spans[1]].StartTime

\* C9 as stated: End on a span whose end time is already set leaves it at
\* the value the first End gave it.
C9_EndKeepsFirstEndTime ==
    [][(ret'.op = "End" /\ ~Tick)
         => \A s \in 1..Len(objs) :
                objs[s].EndTime # 0 => objs'[s].EndTime = objs[s].EndTime]_vars

\* C6 as stated: every StartSpan call appends exactly one span at the end of
\* the buffer, returns a handle to it, and the span has status code 0, a
\* zero end time, service.name set to the service name, and customer.id
\* exactly when the customer id of the configuration is not empty.
C6_StartSpanAppendsOne ==
    [][(ret'.op = "StartSpan" /\ ~Tick)
         => /\ Len(spans') = Len(spans) + 1
            /\ SubSeq(spans', 1, Len(spans)) = spans
            /\ "span" \in DOMAIN ret'
            /\ ret'.span = spans'[Len(spans')]
            /\ objs'[ret'.span].Status.code = 0
            /\ objs'[ret'.span].EndTime = 0
            /\ LET m == maps'[objs'[ret'.span].Attributes]
               IN  /\ "service.name" \in DOMAIN m
                   /\ m["service.name"] = Str(ServiceName)
                   /\ ("customer.id" \in DOMAIN m) <=> (config.CustomerID # "")]_vars

\* C10 as stated: no two spans created by the tracer share a span id.
C10_SpanIDsUnique ==
    \A i \in 1..Len(objs) : \A j \in 1..Len(objs) :
        i # j => objs[i].SpanID # objs[j].SpanID

\* history values of a span that was in a document answered with 200
Accepted == {"acked"}

\* the step is a call of ChatCompletion
AnyChat == ret'.op = "ChatCompletion" /\ ~Tick

\* C11: every ChatCompletion call, whichever way it leaves, has appended
\* exactly one span to the buffer, set latency_ms on it and ended it; the
\* error returned is non-nil exactly when the span's status is code 1 with
\* the error text as message, and nil (the decoded response is returned)
\* exactly when the status is code 0.
C11_ChatCompletionSpan ==
    [][AnyChat
         => LET h == Len(objs) + 1
            IN  /\ Len(objs') = h
                /\ spans' = Append(spans, h)
                /\ "latency_ms" \in DOMAIN maps'[objs'[h].Attributes]
                /\ objs'[h].EndTime # 0
                /\ objs'[h].EndTime = clock'
                /\ (ret'.err # Nil)
                     <=> (objs'[h].Status = [code |-> 1, message |-> ret'.err])
                /\ (ret'.err = Nil) <=> (objs'[h].Status.code = 0)
                /\ (ret'.resp # NilMap) => (objs'[h].Status.code = 0)]_vars

C11_Witness ==
    /\ ret.op = "ChatCompletion"
    /\ ret.err = "OpenAI API returned status: 500"
    /\ ret.resp = NilMap
    /\ Len(spans) = 2
    /\ spans[2] = Len(objs)
    /\ objs[Len(objs)].Status = [code |-> 1, message |-> ret.err]
    /\ objs[Len(objs)].EndTime >= objs[Len(objs)].StartTime
    /\ maps[objs[Len(objs)].Attributes]["latency_ms"] = Int64V(0)

Wrapped(v, w) ==
    CASE v.type = "string" -> w = [stringValue |-> v.val]
      [] v.type \in {"int", "int64"} -> w = [intValue |-> v.val]
      [] v.type = "bool" -> w = [boolValue |-> v.val]
      [] v = Float64V(15) -> w = [stringValue |-> "1.5"]
      [] v = Float64V(420) -> w = [stringValue |-> "42"]
      [] v = Int32V(7) -> w = [stringValue |-> "7"]
      [] v = NilV -> w = [stringValue |-> "<nil>"]

\* C13: the encoder wraps each attribute value by its type (string as
\* stringValue, int and int64 as intValue, bool as boolValue, anything else
\* as stringValue holding its default rendering); encoding never fails, so
\* a Flush on a non-empty buffer always reaches the request; and every
\* attribute key of a span appears exactly once in its encoded list.
C13_EncoderWrapsByType ==
    [][(AnyFlush /\ spans # <<>>)
         => /\ Exported(net')
            /\ \A i \in 1..Len(spans) :
                 LET m == maps[objs[spans[i]].Attributes]
                     e == Doc(net').spans[i].attributes
                 IN  /\ \A x \in e : x.key \in DOMAIN m
                     /\ \A k \in DOMAIN m :
                          /\ Cardinality({x \in e : x.key = k}) = 1
                          /\ \A x \in e : x.key = k => Wrapped(m[k], x.value)]_vars

\* a document was sent whose spans hold a float64, written as a string, and
\* an int64, written as a number
C13_Witness ==
    /\ Exported(net)
    /\ Len(Doc(net).spans) = 2
    /\ [key |-> "latency_ms", value |-> [stringValue |-> "1.5"]]
           \in Doc(net).spans[1].attributes
    /\ [key |-> "latency_ms", value |-> [intValue |-> 0 - 7]]
           \in Doc(net).spans[2].attributes

\* C14: a span's name, trace id and span id never change once StartSpan has
\* returned it: no step (SetAttribute, SetStatus, End, Flush accepted or
\* failed, or the start of another span) changes them.
C14_IdentityNeverChanges ==
    [][\A h \in 1..Len(objs) :
          /\ h <= Len(objs')
          /\ objs'[h].Name = objs[h].Name
          /\ objs'[h].TraceID = objs[h].TraceID
          /\ objs'[h].SpanID = objs[h].SpanID]_vars

\* a span that was given an attribute and a status, was ended and exported,
\* and still has the identity StartSpan gave it
C14_Witness ==
    /\ Len(objs) = 2
    /\ exported[2] \in Accepted
    /\ objs[2].Status.code = 1
    /\ objs[2].EndTime # 0
    /\ "latency_ms" \in DOMAIN maps[objs[2].Attributes]
    /\ objs[2].Name = "op"
    /\ objs[2].SpanID # objs[1].SpanID
    /\ objs[2].SpanID \in {SpanIDOf(u) : u \in TwoUUIDs}

\* the document of trace n has one entry per span of buf, at the same
\* position, with that span's ids and name
DocOfBuffer(n, buf) ==
    /\ Len(Doc(n).spans) = Len(buf)
    /\ \A i \in 1..Len(buf) :
          /\ Doc(n).spans[i].spanId = objs[buf[i]].SpanID
          /\ Doc(n).spans[i].traceId = objs[buf[i]].TraceID
          /\ Doc(n).spans[i].name = objs[buf[i]].Name

\* C16: under sequential use failed flushes delay a span but never lose it.
\* Every export document lists every span started and not yet accepted; a
\* Flush that fails leaves all of them buffered; so when a Flush is answered
\* with 200, every span started before it has been in the document of each
\* failed Flush since its start and is by then in a document answered 200.
C16_FailedFlushNeverLoses ==
    [][/\ AnyFlush
            => /\ Exported(net')
                    => /\ DocOfBuffer(net', spans)
                       /\ \A h \in 1..Len(objs) :
                              exported[h] \notin Accepted => h \in Handles(spans)
               /\ FlushFailed => spans' = spans
               /\ Acked(net')
                    => \A h \in 1..Len(objs) : exported'[h] \in Accepted
       /\ \A h \in 1..Len(objs) :
              (exported[h] \notin Accepted /\ exported'[h] \notin Accepted)
                  => (h \in Handles(spans) /\ h \in Handles(spans'))]_vars

\* a Flush was refused with 500: its document lists both buffered spans,
\* and both are still buffered, neither accepted yet
C16_Witness ==
    /\ ret.op = "Flush"
    /\ Answered(net)
    /\ net[1].StatusCode = 500
    /\ Len(spans) = 2
    /\ DocOfBuffer(net, spans)
    /\ exported = <<"none", "none">>

\* C17: a span that was in a document answered with 200 is in no later
\* document and never returns to the buffer; SetAttribute, SetStatus and End
\* through a handle kept by the caller do not crash and leave the buffer as
\* it is.  So each span is in at most one accepted export.
C17_AcceptedSpanNeverExportedAgain ==
    [][/\ (AnyFlush /\ Exported(net'))
            => /\ DocOfBuffer(net', spans)
               /\ \A h \in Handles(spans) : exported[h] \notin Accepted
       /\ \A h \in 1..Len(objs) :
              exported[h] \in Accepted
                  => (h \notin Handles(spans) /\ h \notin Handles(spans'))
       /\ (ret'.op \in {"SetAttribute", "SetStatus", "End"} /\ ~Tick)
            => (alive' /\ spans' = spans /\ exported' = exported)]_vars

\* End was called through the handle of a span exported before, which had
\* been given an attribute and a status after its export
C17_Witness ==
    /\ ret.op = "End"
    /\ Len(objs) = 1
    /\ exported[1] \in Accepted
    /\ spans = <<>>
    /\ objs[1].EndTime # 0
    /\ objs[1].Status.code = 1
    /\ "latency_ms" \in DOMAIN maps[objs[1].Attributes]
    /\ alive

\* C15: the collector races when StartSpan runs while a Flush is in flight.
\* When the answer to the request is 200 the whole buffer is replaced: the
\* document answered is the one built before, it lists the spans buffered
\* then and not the ones started since, and the ones started since leave
\* the buffer with the others, in no accepted document.  A span leaves the
\* buffer unaccepted in no other way.
C15_StartSpanDuringFlushIsLost ==
    [][/\ (flight.pending /\ Acked(net') /\ ~flight'.pending)
            => /\ spans' = <<>>
               /\ Doc(net') = flight.req.body
               /\ Len(Doc(net').spans) = Len(flight.buf)
               /\ \A i \in 1..Len(spans) :
                      IF i <= Len(flight.buf)
                      THEN spans[i] = flight.buf[i] /\ exported'[spans[i]] \in Accepted
                      ELSE exported'[spans[i]] \notin Accepted
       /\ \A i \in 1..Len(spans) :
              (spans[i] \notin Handles(spans') /\ exported'[spans[i]] \notin Accepted)
                  => (flight.pending /\ i > Len(flight.buf))]_vars

\* span 2 was started while the Flush of span 1 was in flight: the document
\* answered with 200 lists one span, the buffer is empty, and span 2 is in
\* no accepted document (nor in any other: none was built since its start)
C15_Witness ==
    /\ Acked(net)
    /\ Len(Doc(net).spans) = 1
    /\ Len(objs) = 2
    /\ spans = <<>>
    /\ exported = <<"acked", "none">>
    /\ ~flight.pending

\* the attribute map of span h, before and after the step
AttrsOf(h) == maps[objs[h].Attributes]
AttrsOfNext(h) == maps'[objs'[h].Attributes]

\* C18 as stated: SetAttribute(key, value) on a buffered span, ended or not,
\* makes value the span's value for key and leaves the span's other keys,
\* its status and times, every other span, and the buffer's length and order
\* as they were; and a Flush document shows for every key the value written
\* last.
C18_SetAttributeFrame ==
    [][/\ \A s \in 1..Len(objs), key \in TwoKeys, value \in AttrValues :
              (ret'.op = "SetAttribute" /\ SetAttribute(s, key, value))
                  => /\ AttrsOfNext(s)[key] = value
                     /\ DOMAIN AttrsOfNext(s) = DOMAIN AttrsOf(s) \cup {key}
                     /\ \A k \in DOMAIN AttrsOf(s) \ {key} :
                            AttrsOfNext(s)[k] = AttrsOf(s)[k]
                     /\ objs' = objs
                     /\ spans' = spans
                     /\ \A h \in 1..Len(objs) :
                            h # s => AttrsOfNext(h) = AttrsOf(h)
       /\ (AnyFlush /\ Exported(net'))
            => \A i \in 1..Len(spans) : \A k \in DOMAIN AttrsOf(spans[i]) :
                  [key |-> k, value |-> valueToOTLP(AttrsOf(spans[i])[k])]
                      \in Doc(net').spans[i].attributes]_vars

\* the step is a call of StartSpan that returned
StartSpanReturned == ret'.op = "StartSpan" /\ ~Tick /\ alive'

\* C19: StartSpan stores the caller's map without copying it: the identity
\* attributes are written into that map, and the span refers to it; two
\* spans started with the same map share it, so after a SetAttribute through
\* either handle both hold the value, and a Flush exports it for both.
C19_StartSpanSharesCallerMap ==
    [][/\ \A a \in 1..(Len(maps) + 1) :
              (/\ StartSpanReturned
               /\ \E name \in SpanNames, tu \in OneUUID, su \in OneUUID :
                     StartSpan(name, a, EmptyMap, tu, su))
                  => /\ objs'[Len(objs')].Attributes = a
                     /\ Len(maps') = (IF a <= Len(maps) THEN Len(maps) ELSE a)
                     /\ "service.name" \in DOMAIN maps'[a]
                     /\ a <= Len(maps)
                          => \A k \in DOMAIN maps[a] \ {"service.name", "customer.id"} :
                                 maps'[a][k] = maps[a][k]
       /\ (ret'.op = "SetAttribute" /\ ~Tick)
            => \A s \in 1..Len(objs) : \A h \in 1..Len(objs) :
                  objs[h].Attributes = objs[s].Attributes
                      => AttrsOfNext(h) = AttrsOfNext(s)
       /\ (AnyFlush /\ Exported(net'))
            => \A i \in 1..Len(spans) : \A j \in 1..Len(spans) :
                  objs[spans[i]].Attributes = objs[spans[j]].Attributes
                      => Doc(net').spans[i].attributes = Doc(net').spans[j].attributes]_vars

\* two spans were started with one map, a value was written through a
\* handle, and the document of the Flush shows the value for both spans
C19_Witness ==
    /\ Acked(net)
    /\ Len(objs) = 2
    /\ Len(maps) = 1
    /\ objs[1].Attributes = objs[2].Attributes
    /\ Len(Doc(net).spans) = 2
    /\ \A i \in 1..2 :
          [key |-> "model", value |-> [stringValue |-> "1.5"]]
              \in Doc(net).spans[i].attributes

====
